---- MODULE Spec2Model ----
(***************************************************************************)
(* A model of var_eigen.py: the script that loads the second column of     *)
(* eigenval.xvg, turns it into percentages of the total and draws the      *)
(* variance-versus-rank chart, saved as PNG and SVG.                       *)
(*                                                                         *)
(* A line of the file is a sequence of one-character strings.  A float is  *)
(* an extended rational [n, d] with d >= 0 in lowest terms: d = 0 stands   *)
(* for the non-finite values (n = 1: inf, n = -1: -inf, n = 0: nan) that   *)
(* numpy's division by zero yields.  Binary rounding is not modelled.      *)
(* The script runs top to bottom, so the state machine has one action per  *)
(* statement and a program counter pc.                                     *)
(***************************************************************************)
EXTENDS Integers, Sequences, FiniteSets, TLC

\* ------------------------------------------------------------------ bounds
\* Longest file built from every kind of line.
MaxLines == 3
\* Longest file built from data lines only (more than five components).
MaxData == 6

\* -------------------------------------------------------- program constants
AnnotCount == 5
YPad == 5
Percent == 100
TextDown == 2
MinParts == 2
ValueColumn == 1
FirstRank == 1

\* --------------------------------------------------------------- characters
Digits == <<"0", "1", "2", "3", "4", "5", "6", "7", "8", "9">>

IsDigit(c) == \E k \in 1..Len(Digits) : Digits[k] = c

DigitVal(c) == (CHOOSE k \in 1..Len(Digits) : Digits[k] = c) - 1

\* str.strip() and str.split() with no argument treat these as whitespace.
IsSpace(c) == c \in {" ", "\t", "\n"}

\* ------------------------------------------------------ extended rationals
Abs(x) == IF x < 0 THEN -x ELSE x

Sgn(x) == IF x < 0 THEN -1 ELSE IF x > 0 THEN 1 ELSE 0

RECURSIVE Gcd(_, _)
Gcd(a, b) == IF b = 0 THEN a ELSE Gcd(b, a % b)

\* The float with value n/d (d >= 0), in lowest terms.
Q(n, d) ==
    IF d = 0 THEN [n |-> Sgn(n), d |-> 0]
    ELSE LET g == Gcd(Abs(n), d) IN [n |-> n \div g, d |-> d \div g]

IsFinite(a) == a.d # 0

RAdd(a, b) ==
    IF a.d = 0 /\ b.d = 0
    THEN (IF a = b THEN a ELSE Q(0, 0))
    ELSE Q(a.n * b.d + b.n * a.d, a.d * b.d)

RMul(a, b) == Q(a.n * b.n, a.d * b.d)

\* 1/b; the reciprocal of zero is inf.
Recip(b) == IF b.n = 0 /\ b.d # 0 THEN Q(1, 0) ELSE Q(b.d * Sgn(b.n), Abs(b.n))

\* numpy float division: x/0 is inf or -inf, 0/0 is nan, no exception.
RDiv(a, b) == RMul(a, Recip(b))

\* ------------------------------------------------------------ the loader
\* Only '@' is tested (a faulty variant of StartsWithMarker).
StartsWithMarkerAtOnly(line) == Len(line) > 0 /\ line[1] = "@"

\* line.startswith(('#', '@'))
StartsWithMarker(line) == Len(line) > 0 /\ line[1] \in {"#", "@"}

RECURSIVE LStrip(_)
LStrip(s) == IF s # <<>> /\ IsSpace(Head(s)) THEN LStrip(Tail(s)) ELSE s

RECURSIVE RStrip(_)
RStrip(s) ==
    IF s # <<>> /\ IsSpace(s[Len(s)]) THEN RStrip(SubSeq(s, 1, Len(s) - 1)) ELSE s

\* line.strip()
Strip(s) == RStrip(LStrip(s))

\* str.split(): cut at runs of whitespace, no empty token.  cur is the token
\* being read, acc the tokens already finished.
RECURSIVE SplitFrom(_, _, _)
SplitFrom(s, cur, acc) ==
    IF s = <<>>
    THEN (IF cur = <<>> THEN acc ELSE Append(acc, cur))
    ELSE IF IsSpace(Head(s))
         THEN SplitFrom(Tail(s), <<>>, IF cur = <<>> THEN acc ELSE Append(acc, cur))
         ELSE SplitFrom(Tail(s), Append(cur, Head(s)), acc)

Split(s) == SplitFrom(s, <<>>, <<>>)

\* parts = line.strip().split()
Parts(line) == Split(Strip(line))

\* The token without its sign.
Unsigned(tok) == IF tok # <<>> /\ tok[1] \in {"+", "-"} THEN Tail(tok) ELSE tok

\* float(tok) succeeds: an optional sign, then digits with at most one '.',
\* at least one digit.  (Exponents, underscores, inf and nan need characters
\* that no line of the model holds.)
IsFloat(tok) ==
    LET body == Unsigned(tok) IN
    /\ \A k \in 1..Len(body) : IsDigit(body[k]) \/ body[k] = "."
    /\ Cardinality({k \in 1..Len(body) : body[k] = "."}) <= 1
    /\ \E k \in 1..Len(body) : IsDigit(body[k])

RECURSIVE DecVal(_)
DecVal(ds) ==
    IF ds = <<>> THEN 0 ELSE 10 * DecVal(SubSeq(ds, 1, Len(ds) - 1)) + DigitVal(ds[Len(ds)])

RECURSIVE Pow10(_)
Pow10(k) == IF k = 0 THEN 1 ELSE 10 * Pow10(k - 1)

\* float(tok) for a token IsFloat accepts.
FloatOf(tok) ==
    LET body == Unsigned(tok)
        dots == {k \in 1..Len(body) : body[k] = "."}
        frac == IF dots = {} THEN 0 ELSE Len(body) - (CHOOSE k \in dots : TRUE)
        mag  == DecVal(SelectSeq(body, IsDigit))
    IN  Q(IF tok[1] = "-" THEN -mag ELSE mag, Pow10(frac))

\* parts[0], the index column (a faulty variant of EigenToken).
EigenTokenFirstColumn(parts) == parts[ValueColumn]

\* parts[1], the second column (sequences here are numbered from 1).
EigenToken(parts) == parts[ValueColumn + 1]

\* ------------------------------------------------------------ input files
LineHashNum  == <<"#", " ", "1", " ", "5", "\n">>
LineAtWord   == <<"@", " ", "x", " ", "1", "\n">>
LineNine     == <<"1", " ", "9", "\n">>
LineTrailing == <<"2", " ", " ", "1", "\t", "7", "\n">>
LineIndented == <<" ", "3", " ", "2", ".", "5", "\n">>
LineOneToken == <<"4", "\n">>
LineBlank    == <<"\n">>
LineWord     == <<"5", " ", "x", "\n">>
LineZero     == <<"6", " ", "0", "\n">>
LineNegative == <<"7", " ", "-", "1", "\n">>
LineFarHash  == <<" ", "#", " ", "4", "\n">>

LinePool ==
    {LineHashNum, LineAtWord, LineNine, LineTrailing, LineIndented, LineOneToken,
     LineBlank, LineWord, LineZero, LineNegative, LineFarHash}

DataPool == {LineNine, LineTrailing, LineIndented}

Files ==
    UNION {[1..k -> LinePool] : k \in 0..MaxLines}
        \cup UNION {[1..k -> DataPool] : k \in 0..MaxData}

\* ------------------------------------------------------------------ state
VARIABLES
    file,            \* the lines of eigenval.xvg
    fileExists,      \* whether open() can find it
    pc,              \* the statement to run next
    handle,          \* the file object f: "none", "open" or "closed"
    lineNo,          \* lines the for loop has taken from f
    eigenvalues,
    total_variance,
    proportion_var,
    ranks,
    line2d,          \* the data handed to plt.plot
    xlim,
    ylim,
    i,               \* enumerate's counter in the annotation loop
    texts,           \* the plt.text labels, in the order added
    written,         \* the files savefig has written, in order
    shown,           \* plt.show() has run
    calls,           \* the statements completed, in order
    err,             \* the exception raised, "none" if none
    failedAt         \* the statement that raised it

inputVars == <<file, fileExists>>
loadVars == <<handle, lineNo, eigenvalues>>
anaVars == <<total_variance, proportion_var, ranks>>
figVars == <<line2d, xlim, ylim, i, texts>>
outVars == <<written, shown>>
errVars == <<err, failedAt>>
vars == <<inputVars, pc, loadVars, anaVars, figVars, outVars, calls, errVars>>

Zero == Q(0, 1)

Init ==
    /\ fileExists \in BOOLEAN
    /\ file \in (IF fileExists THEN Files ELSE {<<>>})
    /\ pc = "open"
    /\ handle = "none"
    /\ lineNo = 0
    /\ eigenvalues = <<>>
    /\ total_variance = Zero
    /\ proportion_var = <<>>
    /\ ranks = <<>>
    /\ line2d = <<>>
    /\ xlim = <<>>
    /\ ylim = <<>>
    /\ i = 0
    /\ texts = <<>>
    /\ written = <<>>
    /\ shown = FALSE
    /\ calls = <<>>
    /\ err = "none"
    /\ failedAt = "none"

\* The statement at label completes and control moves to next.
Goto(label, next) ==
    /\ pc = label
    /\ pc' = next
    /\ calls' = Append(calls, label)

\* The statement at label raises exc; the script has no handler, so the
\* interpreter prints the traceback and exits.
Raise(label, exc) ==
    /\ pc = label
    /\ pc' = "failed"
    /\ err' = exc
    /\ failedAt' = label
    /\ UNCHANGED calls

\* ----------------------------------------------------------- data loading
\* with open('eigenval.xvg', 'r') as f:
Open ==
    /\ fileExists
    /\ Goto("open", "readline")
    /\ handle' = "open"
    /\ UNCHANGED <<inputVars, lineNo, eigenvalues, anaVars, figVars, outVars, errVars>>

OpenFails ==
    /\ ~fileExists
    /\ Raise("open", "FileNotFoundError")
    /\ UNCHANGED <<inputVars, loadVars, anaVars, figVars, outVars>>

\* The line the for loop takes next.
NextLine == file[lineNo + 1]

\* One pass of the loop body that appends nothing.
SkipLine ==
    /\ lineNo' = lineNo + 1
    /\ UNCHANGED <<inputVars, pc, handle, eigenvalues, anaVars, figVars, outVars,
                   calls, errVars>>

\* if line.startswith(('#', '@')): continue
SkipMarker ==
    /\ pc = "readline"
    /\ lineNo < Len(file)
    /\ StartsWithMarker(NextLine)
    /\ SkipLine

\* len(parts) >= 2 is false: nothing is appended.
SkipShort ==
    /\ pc = "readline"
    /\ lineNo < Len(file)
    /\ ~StartsWithMarker(NextLine)
    /\ Len(Parts(NextLine)) < MinParts
    /\ SkipLine

\* eigenvalues.append(float(parts[1]))
AppendValue ==
    /\ pc = "readline"
    /\ lineNo < Len(file)
    /\ ~StartsWithMarker(NextLine)
    /\ Len(Parts(NextLine)) >= MinParts
    /\ IsFloat(EigenToken(Parts(NextLine)))
    /\ eigenvalues' = Append(eigenvalues, FloatOf(EigenToken(Parts(NextLine))))
    /\ lineNo' = lineNo + 1
    /\ UNCHANGED <<inputVars, pc, handle, anaVars, figVars, outVars, calls, errVars>>

\* The bad line is passed over as if it were short (a faulty variant of ParseFailure).
ParseFailureSwallowed ==
    /\ pc = "readline"
    /\ lineNo < Len(file)
    /\ ~StartsWithMarker(NextLine)
    /\ Len(Parts(NextLine)) >= MinParts
    /\ ~IsFloat(EigenToken(Parts(NextLine)))
    /\ SkipLine

\* float(parts[1]) raises ValueError inside the with block: control leaves the
\* loop for the context manager's exit with the exception pending.
ParseFailure ==
    /\ pc = "readline"
    /\ lineNo < Len(file)
    /\ ~StartsWithMarker(NextLine)
    /\ Len(Parts(NextLine)) >= MinParts
    /\ ~IsFloat(EigenToken(Parts(NextLine)))
    /\ lineNo' = lineNo + 1
    /\ pc' = "with_exit"
    /\ err' = "ValueError"
    /\ failedAt' = "readline"
    /\ UNCHANGED <<inputVars, handle, eigenvalues, anaVars, figVars, outVars, calls>>

\* The iterator is exhausted: the with block ends normally.
EndOfFile ==
    /\ pc = "readline"
    /\ lineNo = Len(file)
    /\ pc' = "with_exit"
    /\ calls' = Append(calls, "readline")
    /\ UNCHANGED <<inputVars, loadVars, anaVars, figVars, outVars, errVars>>

\* The exit leaves the file open when an exception is pending (a faulty
\* variant of WithExit).
WithExitLeak ==
    /\ pc = "with_exit"
    /\ handle' = IF err = "none" THEN "closed" ELSE handle
    /\ pc' = IF err = "none" THEN "array" ELSE "failed"
    /\ calls' = IF err = "none" THEN Append(calls, "with_exit") ELSE calls
    /\ UNCHANGED <<inputVars, lineNo, eigenvalues, anaVars, figVars, outVars, errVars>>

\* f.__exit__: closes the file on both paths, then lets a pending exception
\* propagate.
WithExit ==
    /\ pc = "with_exit"
    /\ handle' = "closed"
    /\ pc' = IF err = "none" THEN "array" ELSE "failed"
    /\ calls' = IF err = "none" THEN Append(calls, "with_exit") ELSE calls
    /\ UNCHANGED <<inputVars, lineNo, eigenvalues, anaVars, figVars, outVars, errVars>>

\* eigenvalues = np.array(eigenvalues): same values, same order.
ToArray ==
    /\ Goto("array", "sum")
    /\ UNCHANGED <<inputVars, loadVars, anaVars, figVars, outVars, errVars>>

\* ---------------------------------------------------- variance calculation
RECURSIVE RSum(_)
RSum(s) == IF s = <<>> THEN Zero ELSE RAdd(RSum(SubSeq(s, 1, Len(s) - 1)), s[Len(s)])

\* total_variance = np.sum(eigenvalues); the sum of an empty array is 0.0.
Sum ==
    /\ Goto("sum", "proportion")
    /\ total_variance' = RSum(eigenvalues)
    /\ UNCHANGED <<inputVars, loadVars, proportion_var, ranks, figVars, outVars, errVars>>

\* The shares as fractions of one, not of a hundred (a faulty variant of Proportions).
ProportionsAsFractions(e, t) == [k \in 1..Len(e) |-> RDiv(e[k], t)]

\* (eigenvalues / total_variance) * 100, element by element.
Proportions(e, t) == [k \in 1..Len(e) |-> RMul(RDiv(e[k], t), Q(Percent, 1))]

Proportion ==
    /\ Goto("proportion", "ranks")
    /\ proportion_var' = Proportions(eigenvalues, total_variance)
    /\ UNCHANGED <<inputVars, loadVars, total_variance, ranks, figVars, outVars, errVars>>

\* np.arange(start, stop): start, start + 1, ..., stop - 1.
Arange(start, stop) ==
    [k \in 1..(IF stop > start THEN stop - start ELSE 0) |-> start + k - 1]

\* np.arange(len(eigenvalues)): ranks counted from zero (a faulty variant of RanksOf).
RanksFromZero(e) == Arange(0, Len(e))

\* np.arange(1, len(eigenvalues) + 1)
RanksOf(e) == Arange(FirstRank, Len(e) + 1)

Ranks ==
    /\ Goto("ranks", "figure")
    /\ ranks' = RanksOf(eigenvalues)
    /\ UNCHANGED <<inputVars, loadVars, total_variance, proportion_var, figVars, outVars,
                   errVars>>

\* ------------------------------------------------------------------ the chart
\* A pyplot call that only styles the figure.
Styling(label, next) ==
    /\ Goto(label, next)
    /\ UNCHANGED <<inputVars, loadVars, anaVars, figVars, outVars, errVars>>

\* plt.figure(figsize=(10, 6), dpi=300)
Figure == Styling("figure", "plot")

\* plt.plot(ranks, proportion_var, 'bo-', ...)
Plot ==
    /\ Goto("plot", "xlabel")
    /\ line2d' = <<ranks, proportion_var>>
    /\ UNCHANGED <<inputVars, loadVars, anaVars, xlim, ylim, i, texts, outVars, errVars>>

XLabel == Styling("xlabel", "ylabel")

YLabel == Styling("ylabel", "title")

Title == Styling("title", "grid")

Grid == Styling("grid", "xlim")

\* plt.xlim(0.5, 20.5)
XLim ==
    /\ Goto("xlim", "ylim")
    /\ xlim' = <<Q(1, 2), Q(41, 2)>>
    /\ UNCHANGED <<inputVars, loadVars, anaVars, line2d, ylim, i, texts, outVars, errVars>>

\* proportion_var[0] + 5
YTop(p) == RAdd(p[1], Q(YPad, 1))

\* plt.ylim(0, proportion_var[0] + 5)
YLim ==
    /\ proportion_var # <<>>
    /\ IsFinite(YTop(proportion_var))
    /\ Goto("ylim", "text")
    /\ ylim' = <<Zero, YTop(proportion_var)>>
    /\ UNCHANGED <<inputVars, loadVars, anaVars, line2d, xlim, i, texts, outVars, errVars>>

\* proportion_var[0] on an empty array: numpy raises IndexError.
YLimIndexError ==
    /\ proportion_var = <<>>
    /\ Raise("ylim", "IndexError")
    /\ UNCHANGED <<inputVars, loadVars, anaVars, figVars, outVars>>

\* A zero total makes the first share inf, -inf or nan, and matplotlib refuses
\* such an axis limit with ValueError.
YLimNonFinite ==
    /\ proportion_var # <<>>
    /\ ~IsFinite(YTop(proportion_var))
    /\ Raise("ylim", "ValueError")
    /\ UNCHANGED <<inputVars, loadVars, anaVars, figVars, outVars>>

\* No slice at all (a faulty variant of Take).
TakeAll(s, k) == s

\* s[:k]
Take(s, k) == SubSeq(s, 1, IF k < Len(s) THEN k ELSE Len(s))

\* zip(a, b) stops with the shorter of the two.
Zip(a, b) == [k \in 1..(IF Len(a) < Len(b) THEN Len(a) ELSE Len(b)) |-> <<a[k], b[k]>>]

\* enumerate(zip(ranks[:5], proportion_var[:5]))
Annotated == Zip(Take(ranks, AnnotCount), Take(proportion_var, AnnotCount))

\* plt.text(rank + 0.3, var - 2, f'PC{rank}\n{var:.1f}%', ...) for pair number i.
Text ==
    /\ pc = "text"
    /\ i < Len(Annotated)
    /\ LET rank == Annotated[i + 1][1]
           var  == Annotated[i + 1][2]
       IN  texts' = Append(texts, [pos  |-> i,
                                   x    |-> RAdd(Q(rank, 1), Q(3, 10)),
                                   y    |-> RAdd(var, Q(-TextDown, 1)),
                                   rank |-> rank,
                                   var  |-> var])
    /\ i' = i + 1
    /\ UNCHANGED <<inputVars, pc, loadVars, anaVars, line2d, xlim, ylim, outVars, calls,
                   errVars>>

\* The zip is exhausted: the loop ends.
TextDone ==
    /\ i = Len(Annotated)
    /\ Styling("text", "legend")

Legend == Styling("legend", "tight_layout")

TightLayout == Styling("tight_layout", "savefig_png")

\* ------------------------------------------------------------------ file export
\* plt.savefig('variance_vs_rank.png', bbox_inches='tight', dpi=300)
SavePng ==
    /\ Goto("savefig_png", "savefig_svg")
    /\ written' = Append(written, "variance_vs_rank.png")
    /\ UNCHANGED <<inputVars, loadVars, anaVars, figVars, shown, errVars>>

\* plt.savefig('variance_vs_rank.svg', format='svg', bbox_inches='tight')
SaveSvg ==
    /\ Goto("savefig_svg", "show")
    /\ written' = Append(written, "variance_vs_rank.svg")
    /\ UNCHANGED <<inputVars, loadVars, anaVars, figVars, shown, errVars>>

\* plt.show() placed ahead of the two savefig calls (a faulty variant of Show).
ShowBeforeExport ==
    /\ ~shown
    /\ Goto("savefig_png", "savefig_png")
    /\ shown' = TRUE
    /\ UNCHANGED <<inputVars, loadVars, anaVars, figVars, written, errVars>>

\* plt.show()
Show ==
    /\ Goto("show", "done")
    /\ shown' = TRUE
    /\ UNCHANGED <<inputVars, loadVars, anaVars, figVars, written, errVars>>

\* ------------------------------------------------------------ specification
Next ==
    \/ Open
    \/ OpenFails
    \/ SkipMarker
    \/ SkipShort
    \/ AppendValue
    \/ ParseFailure
    \/ EndOfFile
    \/ WithExit
    \/ ToArray
    \/ Sum
    \/ Proportion
    \/ Ranks
    \/ Figure
    \/ Plot
    \/ XLabel
    \/ YLabel
    \/ Title
    \/ Grid
    \/ XLim
    \/ YLim
    \/ YLimIndexError
    \/ YLimNonFinite
    \/ Text
    \/ TextDone
    \/ Legend
    \/ TightLayout
    \/ SavePng
    \/ SaveSvg
    \/ Show

Spec == Init /\ [][Next]_vars

\* ------------------------------------------------- vocabulary of the claims
\* The claims speak of tokens, comment lines and qualifying lines; these
\* definitions state them directly on the characters of a line.
Range(s) == {s[k] : k \in 1..Len(s)}

TokenStarts(line) ==
    {k \in 1..Len(line) : ~IsSpace(line[k]) /\ (k = 1 \/ IsSpace(line[k - 1]))}

TokenCount(line) == Cardinality(TokenStarts(line))

\* The n-th whitespace-separated token of a line that has one.
NthToken(line, n) ==
    LET from == CHOOSE k \in TokenStarts(line) :
                    Cardinality({j \in TokenStarts(line) : j < k}) = n - 1
        to   == CHOOSE j \in from..Len(line) :
                    /\ \A m \in from..j : ~IsSpace(line[m])
                    /\ (j = Len(line) \/ IsSpace(line[j + 1]))
    IN  SubSeq(line, from, to)

\* a < b for finite a and b.
RLess(a, b) == a.d # 0 /\ b.d # 0 /\ a.n * b.d < b.n * a.d

Marked(line) == line # <<>> /\ (line[1] = "#" \/ line[1] = "@")

Unmarked(line) == ~Marked(line)

Qualifies(line) == Unmarked(line) /\ TokenCount(line) >= 2

NumericSecond(line) == TokenCount(line) >= 2 /\ IsFloat(NthToken(line, 2))

BadLine(line) == Qualifies(line) /\ ~NumericSecond(line)

\* The second tokens of the given lines, as numbers.
SecondValues(lines) == [k \in 1..Len(lines) |-> FloatOf(NthToken(lines[k], 2))]

\* The lines the loop has taken so far.
Taken == SubSeq(file, 1, lineNo)

Loading == pc \in {"open", "readline", "with_exit"}

Completed(label) == label \in Range(calls)

N == Len(eigenvalues)

\* ------------------------------------------------------------------ claims
\* C1: a line that starts with '#' or '@' never adds an eigenvalue and never
\* causes a parse failure, whatever else it holds: at every point of the load
\* the sequence is the one the lines taken so far give once every such line is
\* removed from them.
C1_MarkedLinesIgnored ==
    /\ eigenvalues = SecondValues(SelectSeq(SelectSeq(Taken, Unmarked), NumericSecond))
    /\ failedAt = "readline" => Unmarked(file[lineNo])

C1_Witness ==
    /\ pc = "array"
    /\ \E k \in 1..Len(file) : Marked(file[k]) /\ NumericSecond(file[k])
    /\ \E k \in 1..Len(file) : Marked(file[k]) /\ ~NumericSecond(file[k])
    /\ N >= 1

\* C2: when every qualifying line has a numeric second token, the load ends
\* without error and the sequence is the second tokens of the qualifying
\* lines as numbers, in file order, one per qualifying line; shorter lines
\* and tokens after the second leave no trace.
C2_SecondColumnInOrder ==
    (fileExists /\ \A k \in 1..Len(file) : ~BadLine(file[k]))
        => /\ failedAt # "readline"
           /\ lineNo = Len(file) =>
                /\ eigenvalues = SecondValues(SelectSeq(file, Qualifies))
                /\ N = Cardinality({k \in 1..Len(file) : Qualifies(file[k])})

C2_Witness ==
    /\ pc = "array"
    /\ N >= 2
    /\ eigenvalues[1] # eigenvalues[2]
    /\ \E k \in 1..Len(file) : TokenCount(file[k]) = 1
    /\ \E k \in 1..Len(file) : Qualifies(file[k]) /\ TokenCount(file[k]) > 2

\* The first qualifying line whose second token is not a number.
FirstBad == CHOOSE k \in 1..Len(file) : BadLine(file[k]) /\ \A j \in 1..(k - 1) : ~BadLine(file[j])

\* C3: a qualifying line with a non-numeric second token stops the load at
\* the first such line with ValueError: no later line is taken, no analysis
\* or chart statement runs and neither output file is written.
C3_ParseFailureHalts ==
    (fileExists /\ \E k \in 1..Len(file) : BadLine(file[k]))
        => /\ lineNo <= FirstBad
           /\ pc \in {"open", "readline", "with_exit", "failed"}
           /\ lineNo = FirstBad => (pc \in {"with_exit", "failed"} /\ err = "ValueError"
                                        /\ failedAt = "readline")
           /\ pc = "failed" => lineNo = FirstBad
           /\ ~Completed("readline") /\ ~Completed("sum") /\ ~Completed("figure")
           /\ written = <<>>

C3_Witness ==
    /\ pc = "failed"
    /\ failedAt = "readline"
    /\ N >= 1
    /\ lineNo < Len(file)

\* C4: with no qualifying line the sequence is empty and the run fails on an
\* explicit check of that precondition, never by indexing the empty
\* proportion sequence for the Y-axis limit.
C4_EmptyInputGuarded ==
    (fileExists /\ \A k \in 1..Len(file) : ~Qualifies(file[k]))
        => /\ lineNo = Len(file) => eigenvalues = <<>>
           /\ ~(failedAt = "ylim" /\ err = "IndexError")

\* C5: for N >= 1 and a non-zero total, there are N proportions, the k-th is
\* eigenvalue k over the total times 100, and together they make 100.
C5_ProportionsSumTo100 ==
    LET t == RSum(eigenvalues) IN
    (Completed("proportion") /\ N >= 1 /\ t # Zero)
        => /\ Len(proportion_var) = N
           /\ \A k \in 1..N :
                /\ IsFinite(proportion_var[k])
                /\ proportion_var[k].n * eigenvalues[k].d * t.n
                       = eigenvalues[k].n * 100 * t.d * proportion_var[k].d
           /\ RSum(proportion_var) = Q(100, 1)

C5_Witness ==
    /\ pc = "ranks"
    /\ N >= 3
    /\ \E k \in 1..N : eigenvalues[k].d > 1
    /\ \E k \in 1..N : proportion_var[k] # proportion_var[1]

\* C6: the ranks are 1, 2, ..., N, as many as the eigenvalues and the
\* proportions, N = 0 included.
C6_RanksOneToN ==
    Completed("ranks")
        => /\ Len(ranks) = N
           /\ Len(proportion_var) = N
           /\ \A k \in 1..N : ranks[k] = k

C6_Witness == pc = "figure" /\ Len(ranks) >= 3

\* The statements ahead of the first savefig, in program order.
BeforeExport ==
    <<"open", "readline", "with_exit", "array", "sum", "proportion", "ranks", "figure",
      "plot", "xlabel", "ylabel", "title", "grid", "xlim", "ylim", "text", "legend",
      "tight_layout">>

\* C7: a file is written only after the load, the analysis and every chart
\* statement have completed; the PNG comes before the SVG and the display
\* after both; a run that fails writes nothing.
C7_ExportAfterAllSteps ==
    /\ written \in {<<>>, <<"variance_vs_rank.png">>,
                    <<"variance_vs_rank.png", "variance_vs_rank.svg">>}
    /\ written # <<>> =>
          /\ Len(calls) >= Len(BeforeExport)
          /\ SubSeq(calls, 1, Len(BeforeExport)) = BeforeExport
          /\ err = "none"
    /\ shown => written = <<"variance_vs_rank.png", "variance_vs_rank.svg">>
    /\ err # "none" => (written = <<>> /\ ~shown)

C7_Witness == pc = "done" /\ shown /\ Len(written) = 2

\* C8: the file is closed on every way out of the loader, a parse failure
\* included, so it is never open once the loader is left.
C8_HandleClosed ==
    /\ ~Loading => handle # "open"
    /\ (pc = "failed" /\ failedAt = "readline") => handle = "closed"
    /\ Completed("with_exit") => handle = "closed"

C8_Witness == pc = "failed" /\ failedAt = "readline" /\ handle = "closed"

\* C9: for N >= 1 and a non-zero total the Y axis runs from 0 to 5 above the
\* largest proportion, so every plotted proportion lies below its top.
\* Stated for positive eigenvalues, the data the script is written for.
C9_YTopAboveLargest ==
    (ylim # <<>> /\ \A k \in 1..N : eigenvalues[k].n > 0)
        => /\ ylim[1] = Zero
           /\ \E k \in 1..N : ylim[2] = RAdd(proportion_var[k], Q(5, 1))
           /\ \A k \in 1..N : RLess(proportion_var[k], ylim[2])

\* C10: the annotation loop adds min(5, N) labels, for ranks 1, 2, ... in
\* order, each at (rank + 0.3, proportion - 2) of its own point, and reads no
\* position at or beyond N.
C10_AnnotationsClamped ==
    LET m == IF N < 5 THEN N ELSE 5 IN
    /\ Len(texts) <= m
    /\ Completed("text") => Len(texts) = m
    /\ \A k \in 1..Len(texts) :
          /\ texts[k].pos = k - 1
          /\ texts[k].pos < N
          /\ texts[k].rank = k
          /\ texts[k].x = [n |-> 10 * k + 3, d |-> 10]
          /\ texts[k].y.n * proportion_var[k].d
                 = (proportion_var[k].n - 2 * proportion_var[k].d) * texts[k].y.d
    /\ ~(failedAt = "text")

C10_Witness == pc = "legend" /\ N > 5 /\ Len(texts) = 5

====
